---- MODULE Spec2Model ----
(***************************************************************************)
(* A model of DULuaCompiler (src/elementTypes.js, the TypeScript class     *)
(* that starts at line 217): the resolution of require statements, the     *)
(* context stacks, the line-by-line rewriting of a source file and the     *)
(* assembly of the compilation result.                                     *)
(*                                                                         *)
(* Text is modelled as follows.  A reference string (the argument of a     *)
(* require) is a sequence of tokens in which ":" and "/" are tokens of     *)
(* their own.  A path is a sequence of path components.  A source file is  *)
(* a non-empty sequence of lines (what sourceCode.split('\n') returns), a  *)
(* line is a sequence of items, and an item is a record                    *)
(*     [t |-> kind, file |-> reference, key |-> key, c |-> in a comment]   *)
(* whose kind is "text" (any code that is no require), "require" (the      *)
(* invocation require("<file>")), "preload" (the rewritten                 *)
(* require('<key>')) or "inline" (the rewritten _REQ['<key>']); c tells    *)
(* that the item stands in a single-line comment.  Keys are real           *)
(* strings built by concatenation.  The sources are taken after directive  *)
(* expansion and are syntactically valid Lua without export markers or     *)
(* compiler-function calls.                                                *)
(***************************************************************************)
EXTENDS Integers, Sequences, FiniteSets, TLC

(***************************************************************************)
(* Bounds                                                                  *)
(***************************************************************************)
\* the root file of the build has at most this many lines
MaxLines == 2

(***************************************************************************)
(* Strings, reference strings and paths                                    *)
(***************************************************************************)
\* the string made of the tokens of ts
RECURSIVE Concat(_)
Concat(ts) == IF ts = <<>> THEN "" ELSE Head(ts) \o Concat(Tail(ts))

\* String.prototype.split(sep) on a token sequence
RECURSIVE SplitOn(_, _)
SplitOn(s, sep) ==
  IF \A i \in 1..Len(s) : s[i] # sep
    THEN <<s>>
    ELSE LET i == CHOOSE k \in 1..Len(s) :
                    s[k] = sep /\ \A j \in 1..(k - 1) : s[j] # sep
         IN  <<SubSeq(s, 1, i - 1)>> \o SplitOn(SubSeq(s, i + 1, Len(s)), sep)

\* the components of a path joined with forward slashes
RECURSIVE JoinPath(_)
JoinPath(p) ==
  IF p = <<>> THEN ""
  ELSE IF Len(p) = 1 THEN p[1]
  ELSE p[1] \o "/" \o JoinPath(Tail(p))

\* path.normalize on a sequence of components: ".." removes its predecessor
RECURSIVE Normalize(_, _)
Normalize(done, rest) ==
  IF rest = <<>> THEN done
  ELSE IF Head(rest) = ".." /\ done # <<>>
    THEN Normalize(SubSeq(done, 1, Len(done) - 1), Tail(rest))
  ELSE IF Head(rest) = "." \/ Head(rest) = ""
    THEN Normalize(done, Tail(rest))
  ELSE Normalize(Append(done, Head(rest)), Tail(rest))

\* path.join(prefix, '?.lua').replace('?', filename), filename a token sequence
CandidatePath(prefix, filename) ==
  LET parts == SplitOn(filename, "/")
      comps == [i \in 1..Len(parts) |->
                  IF i = Len(parts) THEN Concat(parts[i]) \o ".lua"
                                    ELSE Concat(parts[i])]
  IN  Normalize(<<>>, prefix \o comps)

\* path.dirname
Dirname(file) == SubSeq(file, 1, Len(file) - 1)

\* path.basename
Basename(file) == file[Len(file)]

\* length of the longest common prefix of two paths
RECURSIVE CommonPrefix(_, _)
CommonPrefix(p, q) ==
  IF p = <<>> \/ q = <<>> \/ Head(p) # Head(q) THEN 0
  ELSE 1 + CommonPrefix(Tail(p), Tail(q))

\* path.relative(from, to).replace(/\\/g, '/')
RelativePath(from, to) ==
  LET k == CommonPrefix(from, to)
  IN  JoinPath([i \in 1..(Len(from) - k) |-> ".."] \o SubSeq(to, k + 1, Len(to)))

IsPrefix(p, q) == Len(p) <= Len(q) /\ SubSeq(q, 1, Len(p)) = p

(***************************************************************************)
(* The project, its libraries and the files on disk                        *)
(***************************************************************************)
ProjectName == "proj"
BuildName == "main"
ProjectDirectory == <<"p">>
SourceDirectory == <<"p", "src">>
VendorDirectory == <<"p", "src", "vendor">>
\* the source root of a library that lies outside the project's directory
ExternalDirectory == <<"e">>

\* Library.loadFromProject(project)
ProjectLibrary == [id |-> ProjectName, sourcePath |-> SourceDirectory]
VendorLibrary == [id |-> "lib", sourcePath |-> VendorDirectory]
ExternalLibrary == [id |-> "ext", sourcePath |-> ExternalDirectory]
\* the value null of type Library | null
NullLibrary == [id |-> "", sourcePath |-> <<>>]

\* this.loadedLibraries, filled by the constructor
LibraryIds == {ProjectLibrary.id, VendorLibrary.id, ExternalLibrary.id}
LoadedLibraries == [i \in LibraryIds |->
                      IF i = ProjectLibrary.id THEN ProjectLibrary
                      ELSE IF i = VendorLibrary.id THEN VendorLibrary
                      ELSE ExternalLibrary]

\* project.internalPaths, the prefixes of engine-provided libraries
InternalPaths == {"dkjson"}

\* project.containsPath(fullpath): the path lies inside the project's boundary
ContainsPath(fullpath) == IsPrefix(ProjectDirectory, fullpath)

MainFile == <<"p", "src", "main.lua">>
FileA == <<"p", "src", "a.lua">>
FileB == <<"p", "src", "b.lua">>
FileUtil == <<"p", "src", "util.lua">>
VendorUtil == <<"p", "src", "vendor", "util.lua">>
VendorOther == <<"p", "src", "vendor", "other.lua">>
ExternalShared == <<"e", "shared.lua">>
VendorShared == <<"p", "src", "vendor", "shared.lua">>
NestedOther == <<"p", "src", "vendor", "vendor", "other.lua">>
\* the regular files that exist
Files == {MainFile, FileA, FileB, FileUtil, VendorUtil, VendorOther, ExternalShared,
          VendorShared, NestedOther}
\* the directories whose name ends with .lua
Directories == { <<"p", "src", "shared.lua">> }

\* fs.existsSync(path) and fs.statSync(path).isFile()
ExistsSync(path) == path \in Files \cup Directories
IsFile(path) == path \in Files

(***************************************************************************)
(* Source text                                                             *)
(***************************************************************************)
\* code that contains no require invocation
Text == [t |-> "text", file |-> <<>>, key |-> "", c |-> FALSE]
\* the invocation require("<ref>") in code
Require(ref) == [t |-> "require", file |-> ref, key |-> "", c |-> FALSE]
\* the same invocation after the "--" of a single-line comment
CommentedRequire(ref) == [t |-> "require", file |-> ref, key |-> "", c |-> TRUE]

RefA == <<"a">>
RefB == <<"b">>
RefUtil == <<"util">>
RefMissing == <<"missing">>
RefLibUtil == <<"lib", ":", "util">>
RefLibOther == <<"lib", ":", "other">>
RefNoLib == <<"nolib", ":", "x">>
RefShared == <<"shared">>
RefExtShared == <<"ext", ":", "shared">>
RefDkjson == <<"dkjson", "/", "x">>
RefVendorOther == <<"vendor", "/", "other">>
RefMain == <<ProjectName, ":", BuildName>>
RefNoBuild == <<ProjectName, ":", "nobuild">>

\* the lines the build's root file is written with
MainLines ==
  { <<Require(RefA)>>, <<Require(RefB)>>, <<Text, Require(RefUtil)>>,
    <<Require(RefMissing)>>, <<Require(RefLibOther)>> }

RECURSIVE SeqsUpTo(_, _)
\* the non-empty sequences over S of length at most n
SeqsUpTo(S, n) ==
  IF n <= 1 THEN {<<x>> : x \in S}
  ELSE SeqsUpTo(S, n - 1) \cup {Append(q, x) : q \in SeqsUpTo(S, n - 1), x \in S}

\* the content of the files no reference leads to
Unused == << <<Text>> >>

\* vendor/other.lua referring to a.lua, a file of the directory above its own
OtherRequiresA == << <<Text, Require(RefA)>> >>
\* vendor/other.lua referring to vendor/other.lua below its own directory
OtherRequiresNested == << <<Text, Require(RefVendorOther)>> >>

\* the contents a file may have
SourcesOf(f) ==
  IF f = MainFile THEN SeqsUpTo(MainLines, MaxLines)
  ELSE IF f = FileA THEN
    { << <<Require(RefUtil)>> >>,
      << <<Require(RefB), Require(RefUtil), Require(RefUtil)>> >>,
      << <<Require(RefMissing)>>, <<Require(RefUtil)>> >>,
      << <<Text, Require(RefLibUtil)>>, <<Text, Require(RefShared)>> >> }
  ELSE IF f = FileB THEN
    { << <<Require(RefA)>> >>,
      << <<Text, Require(RefUtil)>>, <<Text, CommentedRequire(RefUtil)>> >>,
      << <<Text, Require(RefDkjson)>>, <<Text, CommentedRequire(RefUtil)>> >> }
  ELSE IF f = FileUtil THEN
    { << <<Text>> >>, << <<Require(RefUtil)>> >>, << <<Text, Require(RefNoLib)>> >> }
  ELSE IF f = VendorOther THEN
    { << <<Text>> >>,
      << <<Text, Require(RefUtil)>>, <<Text, Require(RefExtShared)>> >>,
      OtherRequiresA, OtherRequiresNested }
  ELSE { << <<Text>> >> }

\* the root references a compilation is started with: compile() uses
\* `${project.name}:${build.name}`, compileRequire() the requireName it is given
RootRefs == {RefMain, RefNoBuild, RefNoLib, RefA, RefLibOther, RefVendorOther}

\* the values of LUA_PATH after split(';') and the removal of empty entries,
\* each template "<directory>/?.lua" given by its directory
LuaPaths == { <<ExternalDirectory, VendorDirectory>> }

(***************************************************************************)
(* Build variables and conditional directives                              *)
(*                                                                         *)
(* A JavaScript value is a record [k, b, n, s]: k is its type, b its value *)
(* when it is a boolean, n when it is a number, s (a sequence of           *)
(* characters) when it is a string.  A variable set maps every name to a   *)
(* value, undefined for the names it does not bind.                        *)
(***************************************************************************)
Undefined == [k |-> "undefined", b |-> FALSE, n |-> 0, s |-> <<>>]
Null == [k |-> "null", b |-> FALSE, n |-> 0, s |-> <<>>]
NaN == [k |-> "NaN", b |-> FALSE, n |-> 0, s |-> <<>>]
Bool(x) == [k |-> "boolean", b |-> x, n |-> 0, s |-> <<>>]
Num(x) == [k |-> "number", b |-> FALSE, n |-> x, s |-> <<>>]
Str(x) == [k |-> "string", b |-> FALSE, n |-> 0, s |-> x]

Whitespace == {" ", "\t", "\n"}
Digits == <<"0", "1", "2", "3", "4", "5", "6", "7", "8", "9">>
IsDigit(c) == \E d \in 1..Len(Digits) : Digits[d] = c
DigitValue(c) == (CHOOSE d \in 1..Len(Digits) : Digits[d] = c) - 1

\* String.prototype.trim on a sequence of characters or of tokens
RECURSIVE TrimStart(_)
TrimStart(t) ==
  IF t # <<>> /\ Head(t) \in Whitespace THEN TrimStart(Tail(t)) ELSE t
RECURSIVE TrimEnd(_)
TrimEnd(t) ==
  IF t # <<>> /\ t[Len(t)] \in Whitespace THEN TrimEnd(SubSeq(t, 1, Len(t) - 1)) ELSE t
Trim(t) == TrimEnd(TrimStart(t))

\* the number written with the decimal digits t
RECURSIVE DecimalValue(_)
DecimalValue(t) ==
  IF t = <<>> THEN 0
  ELSE 10 * DecimalValue(SubSeq(t, 1, Len(t) - 1)) + DigitValue(t[Len(t)])

IsDecimal(t) == t # <<>> /\ \A i \in 1..Len(t) : IsDigit(t[i])

\* JSON.parse(text) for the literals true, false, null, unsigned integers and
\* strings without escapes: ok = FALSE when JSON.parse throws
JSONParse(text) ==
  LET t == Trim(text)
  IN  IF t = <<"t", "r", "u", "e">> THEN [ok |-> TRUE, value |-> Bool(TRUE)]
      ELSE IF t = <<"f", "a", "l", "s", "e">> THEN [ok |-> TRUE, value |-> Bool(FALSE)]
      ELSE IF t = <<"n", "u", "l", "l">> THEN [ok |-> TRUE, value |-> Null]
      ELSE IF IsDecimal(t) /\ (Len(t) = 1 \/ t[1] # "0")
        THEN [ok |-> TRUE, value |-> Num(DecimalValue(t))]
      ELSE IF /\ Len(t) >= 2 /\ t[1] = "\"" /\ t[Len(t)] = "\""
              /\ \A i \in 2..(Len(t) - 1) : t[i] \notin {"\"", "\\"}
        THEN [ok |-> TRUE, value |-> Str(SubSeq(t, 2, Len(t) - 1))]
      ELSE [ok |-> FALSE, value |-> Undefined]

\* ToNumber of a boolean, a number or a string of blanks and decimal digits
ToNumber(v) ==
  IF v.k = "boolean" THEN Num(IF v.b THEN 1 ELSE 0)
  ELSE IF v.k = "string" THEN
    (IF Trim(v.s) = <<>> THEN Num(0)
     ELSE IF IsDecimal(Trim(v.s)) THEN Num(DecimalValue(Trim(v.s)))
     ELSE NaN)
  ELSE v

\* x == y with the operands of one type
StrictEquals(x, y) == x.k # "NaN" /\ x = y

\* x == y, the loose equality of JavaScript
LooseEquals(x, y) ==
  IF x.k = y.k THEN StrictEquals(x, y)
  ELSE IF x.k \in {"undefined", "null"} \/ y.k \in {"undefined", "null"}
    THEN x.k \in {"undefined", "null"} /\ y.k \in {"undefined", "null"}
  ELSE StrictEquals(ToNumber(x), ToNumber(y))

\* the names of the build variables and the sets that bind none of them
VariableNames == {"RELEASE", "MODE", "LEVEL"}
NoVariables == [name \in VariableNames |-> Undefined]

\* Object.assign({}, first, second) with the sources in the wrong order
AssignReversed(first, second) ==
  [name \in VariableNames |->
     IF first[name] # Undefined THEN first[name] ELSE second[name]]

\* Object.assign({}, first, second): the properties of second replace those of first
Assign(first, second) ==
  [name \in VariableNames |->
     IF second[name] # Undefined THEN second[name] ELSE first[name]]

\* A directive block: the line "---@if <name><compareValue>", where
\* compareValue is what the group (.*?) of line 528 captures (the blank after
\* the name included), then innerCode, a sequence of tokens in which "\n",
\* " " and "---@else" are tokens of their own, then the line "---@end".
ElseMarker == "---@else"

\* innerCode.split('---@else')
SplitElse(innerCode) == SplitOn(innerCode, ElseMarker)

\* blocks['true'] and blocks['false'] (lines 531-541)
Blocks(innerCode) ==
  IF \E i \in 1..Len(innerCode) : innerCode[i] = ElseMarker
    THEN [true |-> SplitElse(innerCode)[1], false |-> SplitElse(innerCode)[2]]
    ELSE [true |-> innerCode, false |-> <<>>]

\* parsedValue (lines 544-551)
ParsedValue(compareValue) ==
  IF Len(compareValue) = 0 THEN Bool(TRUE)
  ELSE IF JSONParse(compareValue).ok THEN JSONParse(compareValue).value
  ELSE Str(compareValue)

\* the action of the directive @if (lines 529-558): the condition of line 554
\* is (parsedValue == variable) || null
directiveAction(set, name, compareValue, innerCode) ==
  IF LooseEquals(ParsedValue(compareValue), set[name])
    THEN Trim(Blocks(innerCode).true)
    ELSE Trim(Blocks(innerCode).false)

(***************************************************************************)
(* State                                                                   *)
(***************************************************************************)
VARIABLES
  targetVariables,    \* buildTarget.variables || {}
  variables,          \* the variables the caller of compile() supplies
  buildVariables,     \* this.buildVariables
  directive,          \* the directive block processDirectives is given
  processed,          \* what processDirectives returned for it
  dpc                 \* "new", "built" (constructor ran) or "processed"

VARIABLES
  phase,              \* "single": one compilation; "solo", "pair": see SpecPair
  active,             \* which of two compilations the variables below belong to
  other,              \* the fields of the compilation that is suspended
  reference           \* the fields of the first compilation after it ran alone

VARIABLES
  fs,                 \* the content of every existing file
  preload,            \* build.options.preload
  rootRef,            \* the reference startBuild resolves first
  loadedLuaPath,      \* this.loadedLuaPath
  pc,                 \* "init", "run", "done" (startBuild returned) or "failed"
  error,              \* the message of the fatal error, "" when there is none
  sourceDirectories,  \* this.sourceDirectories, first element = index 1
  currentFiles,       \* this.currentFiles
  currentLibraries,   \* this.currentLibraries
  currentLineOfCode,  \* this.currentLineOfCode
  requiredFiles,      \* this.requiredFiles
  frames,             \* the calls of processSourceCode in progress, innermost first
  result,             \* what startBuild returned
  notices,            \* the calls of CLI.status and CLI.warn for unresolved requires
  transformed,        \* how often processSourceCode was started for each file
  entered,            \* the calls of processSourceCode in the order they started
  origin              \* for each element of requiredFiles, the call that produced it

settings == <<targetVariables, variables, buildVariables, directive, processed, dpc>>
session == <<phase, active, other, reference>>
inputs == <<fs, preload, rootRef, loadedLuaPath, settings, session>>
stacks == <<sourceDirectories, currentFiles, currentLibraries>>
vars == <<fs, preload, rootRef, loadedLuaPath, pc, error, sourceDirectories,
          currentFiles, currentLibraries, currentLineOfCode, requiredFiles,
          frames, result, notices, transformed, entered, origin, settings, session>>

NoResult == [returned |-> FALSE, output |-> <<>>, preloads |-> <<>>]

\* the fields of an instance of DULuaCompiler, with the options of its build
Instance(p, r, c, e, sd, cf, cl, cloc, rf, fr, res, n, t, en, o) ==
  [preload |-> p, rootRef |-> r, pc |-> c, error |-> e, sourceDirectories |-> sd,
   currentFiles |-> cf, currentLibraries |-> cl, currentLineOfCode |-> cloc,
   requiredFiles |-> rf, frames |-> fr, result |-> res, notices |-> n,
   transformed |-> t, entered |-> en, origin |-> o]

\* a new instance (lines 221-271 and 278-305) for a build with the option
\* preload = p that is to compile the reference r
NewInstance(p, r) ==
  Instance(p, r, "init", "", <<SourceDirectory>>, <<>>, <<>>, <<>>, <<>>, <<>>,
           NoResult, <<>>, [f \in Files |-> 0], <<>>, <<>>)

\* no instance
NoInstance ==
  Instance(FALSE, <<>>, "none", "", <<>>, <<>>, <<>>, <<>>, <<>>, <<>>,
           NoResult, <<>>, [f \in Files |-> 0], <<>>, <<>>)

\* one compilation at a time
NoSession ==
  /\ phase = "single"
  /\ active = 1
  /\ other = NoInstance
  /\ reference = NoInstance

NoDirective == [name |-> "", compareValue |-> <<>>, innerCode |-> <<>>]

\* a compiler built without variables, with no directive to process
NoSettings ==
  /\ targetVariables = NoVariables
  /\ variables = NoVariables
  /\ buildVariables = Assign(NoVariables, NoVariables)
  /\ directive = NoDirective
  /\ processed = <<>>
  /\ dpc = "built"

\* the state after the constructor (lines 278-305) ran
Init ==
  /\ rootRef \in RootRefs
  /\ \E m \in SourcesOf(MainFile) \cup {Unused}, a \in SourcesOf(FileA),
        b \in SourcesOf(FileB), u \in SourcesOf(FileUtil),
        o \in SourcesOf(VendorOther), v \in SourcesOf(VendorUtil) :
       /\ m = Unused <=> rootRef # RefMain
       /\ rootRef \in {RefNoBuild, RefNoLib} =>
            /\ a = << <<Require(RefUtil)>> >> /\ b = << <<Require(RefA)>> >>
            /\ u = Unused /\ o = Unused
       /\ o = OtherRequiresA <=> rootRef = RefVendorOther
       /\ o = OtherRequiresNested => rootRef = RefMain
       /\ o \in {OtherRequiresA, OtherRequiresNested} =>
            /\ a = << <<Require(RefUtil)>> >> /\ b = << <<Require(RefA)>> >>
            /\ u = Unused
       /\ fs = [f \in Files |->
                  IF f = MainFile THEN m ELSE IF f = FileA THEN a
                  ELSE IF f = FileB THEN b ELSE IF f = FileUtil THEN u
                  ELSE IF f = VendorOther THEN o
                  ELSE IF f = VendorUtil THEN v ELSE Unused]
  /\ preload \in BOOLEAN
  /\ loadedLuaPath \in LuaPaths
  /\ pc = "init"
  /\ error = ""
  /\ sourceDirectories = <<SourceDirectory>>
  /\ currentFiles = <<>>
  /\ currentLibraries = <<>>
  /\ currentLineOfCode = <<>>
  /\ requiredFiles = <<>>
  /\ frames = <<>>
  /\ result = NoResult
  /\ notices = <<>>
  /\ transformed = [f \in Files |-> 0]
  /\ entered = <<>>
  /\ origin = <<>>
  /\ NoSettings
  /\ NoSession

(***************************************************************************)
(* Accessors                                                               *)
(***************************************************************************)
getCurrentDirectory == sourceDirectories[1]

getCurrentFile == IF currentFiles = <<>> THEN <<>> ELSE currentFiles[1]

getCurrentLibrary ==
  IF currentLibraries = <<>> THEN NullLibrary ELSE currentLibraries[1]

\* isRootFile with the file at the bottom of the stack taken for no file
isRootFileOrBelow(files) == Len(files) <= 1

\* isRootFile testing the array, which is never falsy, instead of its first element
isRootFileNever(files) == FALSE

\* isRootFile for the value files of this.currentFiles
isRootFile(files) == files = <<>>

\* Array.prototype.shift and Array.prototype.pop, which leave an empty array alone
Shift(a) == IF a = <<>> THEN <<>> ELSE Tail(a)
Pop(a) == IF a = <<>> THEN <<>> ELSE SubSeq(a, 1, Len(a) - 1)
\* a[0] = v
SetFirst(a, v) == IF a = <<>> THEN <<v>> ELSE [a EXCEPT ![1] = v]

(***************************************************************************)
(* Resolution of a reference                                               *)
(***************************************************************************)
\* parseFileString: the project is "" when the reference names none
parseFileString(filename) ==
  LET parsedFilename == SplitOn(filename, ":")
  IN  IF Len(parsedFilename) < 2
        THEN [project |-> "", filename |-> parsedFilename[1]]
        ELSE [project |-> Concat(parsedFilename[1]), filename |-> parsedFilename[2]]

\* the last element of paths that exists as a regular file, <<>> if none does
LastExisting(paths) ==
  LET regular == {i \in 1..Len(paths) : ExistsSync(paths[i]) /\ IsFile(paths[i])}
  IN  IF regular = {} THEN <<>>
      ELSE paths[CHOOSE i \in regular : \A j \in regular : j <= i]

\* the first element of paths that exists as a regular file, <<>> if none does
RECURSIVE FirstExisting(_)
FirstExisting(paths) ==
  IF paths = <<>> THEN <<>>
  ELSE IF ExistsSync(Head(paths)) /\ IsFile(Head(paths)) THEN Head(paths)
  ELSE FirstExisting(Tail(paths))

\* internalLuaPath with "?" replaced by the file name (lines 445-454)
PossibleFilePaths(projectPrefix, filename) ==
  <<CandidatePath(projectPrefix, filename)>> \o
  [i \in 1..Len(loadedLuaPath) |-> CandidatePath(loadedLuaPath[i], filename)]

\* getRequiredFileInfo falling back to the project for a library that is not loaded
RequiredFileInfoSoft(filename, directory, library) ==
  LET file == parseFileString(filename)
      named == IF file.project \in LibraryIds THEN LoadedLibraries[file.project]
                                              ELSE ProjectLibrary
      projectPrefix == IF file.project # "" THEN named.sourcePath ELSE directory
      possibleFilePaths == PossibleFilePaths(projectPrefix, file.filename)
      fullpath == FirstExisting(possibleFilePaths)
  IN  IF fullpath = <<>>
        THEN [panic |-> FALSE, found |-> FALSE, project |-> "", filename |-> "",
              fullpath |-> <<>>]
      ELSE IF library # NullLibrary
        THEN [panic |-> FALSE, found |-> TRUE,
              project |-> IF file.project = "" THEN library.id ELSE file.project,
              filename |-> RelativePath(library.sourcePath, fullpath),
              fullpath |-> fullpath]
      ELSE [panic |-> FALSE, found |-> TRUE, project |-> file.project,
            filename |-> Concat(file.filename), fullpath |-> fullpath]

\* getRequiredFileInfo, evaluated with directory as the current directory and
\* library as the current library: panic = the library is not loaded,
\* found = FALSE is the result null
RequiredFileInfo(filename, directory, library) ==
  LET file == parseFileString(filename)
      known == file.project = "" \/ file.project \in LibraryIds
      named == IF file.project # "" /\ known THEN LoadedLibraries[file.project]
                                             ELSE ProjectLibrary
      projectPrefix == IF file.project # "" THEN named.sourcePath ELSE directory
      possibleFilePaths == PossibleFilePaths(projectPrefix, file.filename)
      fullpath == FirstExisting(possibleFilePaths)
  IN  IF ~known
        THEN [panic |-> TRUE, found |-> FALSE, project |-> "", filename |-> "",
              fullpath |-> <<>>]
      ELSE IF fullpath = <<>>
        THEN [panic |-> FALSE, found |-> FALSE, project |-> "", filename |-> "",
              fullpath |-> <<>>]
      ELSE IF library # NullLibrary
        THEN [panic |-> FALSE, found |-> TRUE,
              project |-> IF file.project = "" THEN library.id ELSE file.project,
              filename |-> RelativePath(library.sourcePath, fullpath),
              fullpath |-> fullpath]
      ELSE [panic |-> FALSE, found |-> TRUE, project |-> file.project,
            filename |-> Concat(file.filename), fullpath |-> fullpath]

getRequiredFileInfo(filename) ==
  RequiredFileInfo(filename, getCurrentDirectory, getCurrentLibrary)

\* the first ten hexadecimal digits of the SHA-1 of the path
SafePathHash(fullpath) == "sha1(" \o JoinPath(fullpath) \o ")"

\* requireFullName without the library of the file
RequireFullNameExtern(info) ==
  IF ~ContainsPath(info.fullpath)
    THEN SafePathHash(info.fullpath) \o ":" \o Basename(info.fullpath)
    ELSE "::extern" \o ":" \o info.filename

\* requireFullName without the branch of external files
RequireFullNameInternal(info) ==
  (IF info.project = "" THEN "::extern" ELSE info.project) \o ":" \o info.filename

\* requireFullName as requireFile computes it (lines 714-733)
RequireFullName(info) ==
  IF ~ContainsPath(info.fullpath)
    THEN SafePathHash(info.fullpath) \o ":" \o Basename(info.fullpath)
    ELSE (IF info.project = "" THEN "::extern" ELSE info.project)
           \o ":" \o info.filename

(***************************************************************************)
(* The line being rewritten                                                *)
(***************************************************************************)
\* the line the innermost processSourceCode is working on
CurrentLine == frames[1].lines[frames[1].idx]

\* the positions of the matches of the require expression that the
\* replacement of the current line has not handled yet
OpenMatches ==
  {i \in 1..Len(CurrentLine) : i > frames[1].pos /\ CurrentLine[i].t = "require"}

HasMatch == frames # <<>> /\ OpenMatches # {}

\* the position of the match handled next
MatchPos == CHOOSE i \in OpenMatches : \A j \in OpenMatches : i <= j

\* the test of lines 599-616: after single-line comments are removed from
\* cleanSource the text of the match still occurs in it
SurvivesStrip(source, item) ==
  \E l \in 1..Len(source) : \E i \in 1..Len(source[l]) :
     /\ source[l][i].t = "require"
     /\ source[l][i].file = item.file
     /\ ~source[l][i].c

\* the handler without the branch of inlined requires
RewrittenAsRequire(item, entry) ==
  [t |-> "preload", file |-> <<>>, key |-> entry.fullNameWithProject, c |-> item.c]

\* what the handler returns for a resolved require (lines 626-632)
Rewritten(item, entry) ==
  [t |-> IF preload THEN "preload" ELSE "inline", file |-> <<>>,
   key |-> entry.fullNameWithProject, c |-> item.c]

\* the test of line 669: the line matches ^\s*_REQ\['.*?'\]\s*$
IsEmptyRequire(line) ==
  /\ line # <<>>
  /\ line[1].t = "inline" /\ ~line[1].c
  /\ line[Len(line)].t = "inline"

\* requireFile is being called: by startBuild for the root reference, or by
\* the handler for a match that passed the test of lines 599-616
Calling ==
  /\ pc = "run"
  /\ \/ frames = <<>>
     \/ HasMatch /\ SurvivesStrip(frames[1].cleanSource, CurrentLine[MatchPos])

\* the argument of that call
CallArg == IF frames = <<>> THEN rootRef ELSE CurrentLine[MatchPos].file

\* the test of line 697 with equality in the place of startsWith
IsInternalExact(filename) == Concat(filename) \in InternalPaths

\* filename.startsWith(path) for one of project.internalPaths
IsInternal(filename) ==
  \E k \in 1..Len(filename) : Concat(SubSeq(filename, 1, k)) \in InternalPaths

\* an element of the result's preloads with the key written without quotes
PreloadUnquoted(file) ==
  [path |-> file.fullNameWithProject,
   source |-> file.sourceCode,
   output |-> <<"package.preload[" \o file.fullNameWithProject
                  \o "] = (function (...) ", file.sourceCode, "; end);">>]

\* an element of the result's preloads (lines 786-792)
Preload(file) ==
  [path |-> file.fullNameWithProject,
   source |-> file.sourceCode,
   output |-> <<"package.preload['" \o file.fullNameWithProject
                  \o "'] = (function (...) ", file.sourceCode, "; end);">>]

\* the preloads in the reverse of the order of requiredFiles
PreloadsReversed(files) ==
  [i \in 1..Len(files) |-> Preload(files[Len(files) + 1 - i])]

\* the preloads without the one of the entry that was pushed first
PreloadsTail(files) ==
  [i \in 1..(Len(files) - 1) |-> Preload(files[i + 1])]

\* this.requiredFiles.map (lines 786-792)
Preloads(files) == [i \in 1..Len(files) |-> Preload(files[i])]

\* CLI.panic(message) ends the compilation: startBuild returns nothing
Panic(message) ==
  /\ pc' = "failed"
  /\ error' = message
  /\ result' = result

\* throw new Error(message): no caller catches it, startBuild returns nothing
Throw(message) ==
  /\ pc' = "failed"
  /\ error' = message
  /\ result' = result

\* requireFile returns requireResult to its caller, whose frames are outer: to
\* startBuild (lines 780-800), or to the handler, which replaces the match
Deliver(requireResult, found, outer, files) ==
  IF outer = <<>>
    THEN /\ frames' = <<>>
         /\ IF found
              THEN /\ pc' = "done"
                   /\ error' = error
                   /\ result' = [returned |-> TRUE,
                                 output |-> requireResult.sourceCode,
                                 preloads |-> Preloads(files)]
              ELSE Panic("Build failed with no error!")
    ELSE LET fr == outer[1]
             m == CHOOSE i \in 1..Len(fr.lines[fr.idx]) :
                    /\ i > fr.pos /\ fr.lines[fr.idx][i].t = "require"
                    /\ \A j \in (fr.pos + 1)..(i - 1) : fr.lines[fr.idx][j].t # "require"
             item == fr.lines[fr.idx][m]
         IN  /\ frames' = <<[fr EXCEPT !.pos = m,
                                      !.lines[fr.idx][m] =
                                         IF found THEN Rewritten(item, requireResult)
                                                  ELSE item]>> \o Tail(outer)
             /\ pc' = pc /\ error' = error /\ result' = result

NoEntry == [fullNameWithProject |-> "", sourceCode |-> <<>>]

(***************************************************************************)
(* Actions                                                                 *)
(***************************************************************************)
\* startBuild up to its call of requireFile (lines 773-778)
StartBuild ==
  /\ pc = "init"
  /\ pc' = "run"
  /\ currentLibraries' = <<ProjectLibrary>>
  /\ UNCHANGED <<inputs, error, sourceDirectories, currentFiles, currentLineOfCode,
                 requiredFiles, frames, result, notices, transformed, entered, origin>>

\* getRequiredFileInfo panics: the reference names a library that is not loaded
\* (lines 434-437)
RequireUnknownLibrary ==
  /\ Calling
  /\ getRequiredFileInfo(CallArg).panic
  /\ Panic("Library not found for require")
  /\ UNCHANGED <<inputs, stacks, currentLineOfCode, requiredFiles, frames, notices,
                 transformed, entered, origin>>

\* requireFile finds no file while no file is being processed (lines 690-694)
RequireProjectFileMissing ==
  /\ Calling
  /\ LET requiredInfo == getRequiredFileInfo(CallArg)
     IN  ~requiredInfo.panic /\ ~requiredInfo.found
  /\ isRootFile(currentFiles)
  /\ Panic("Project file missing")
  /\ UNCHANGED <<inputs, stacks, currentLineOfCode, requiredFiles, frames, notices,
                 transformed, entered, origin>>

\* requireFile finds no file inside a file: it notifies and returns null
\* (lines 696-706), and the handler leaves the statement as it is (lines 621-624)
RequireNotFound ==
  /\ Calling
  /\ LET requiredInfo == getRequiredFileInfo(CallArg)
     IN  ~requiredInfo.panic /\ ~requiredInfo.found
  /\ ~isRootFile(currentFiles)
  /\ notices' = Append(notices,
                  [level |-> IF IsInternal(CallArg) THEN "status" ELSE "warn",
                   filename |-> Concat(CallArg), file |-> getCurrentFile])
  /\ Deliver(NoEntry, FALSE, frames, requiredFiles)
  /\ UNCHANGED <<inputs, stacks, currentLineOfCode, requiredFiles, transformed, entered, origin>>

\* the test of line 709 looking at the innermost file only
InLoopTop(fullpath, files) == files # <<>> /\ files[1] = fullpath

\* this.currentFiles.includes(requiredInfo.fullpath) (line 709)
InLoop(fullpath, files) == fullpath \in {files[i] : i \in 1..Len(files)}

\* requireFile finds the file on the stack of files in progress (lines 709-712)
RequireLoop ==
  /\ Calling
  /\ LET requiredInfo == getRequiredFileInfo(CallArg)
     IN  requiredInfo.found /\ InLoop(requiredInfo.fullpath, currentFiles)
  /\ Throw("Files required in a loop")
  /\ UNCHANGED <<inputs, stacks, currentLineOfCode, requiredFiles, frames, notices,
                 transformed, entered, origin>>

\* the entries of requiredFiles with the key name (line 736)
ExistingRequire(name) ==
  SelectSeq(requiredFiles, LAMBDA entry : entry.fullNameWithProject = name)

\* requireFile finds an entry with the key of the file and returns it
\* (lines 735-739); the handler rewrites the statement (lines 626-632)
RequireExisting ==
  /\ Calling
  /\ LET requiredInfo == getRequiredFileInfo(CallArg)
     IN  /\ requiredInfo.found
         /\ ~InLoop(requiredInfo.fullpath, currentFiles)
         /\ ExistingRequire(RequireFullName(requiredInfo)) # <<>>
         /\ Deliver(ExistingRequire(RequireFullName(requiredInfo))[1], TRUE, frames,
                    requiredFiles)
  /\ UNCHANGED <<inputs, stacks, currentLineOfCode, requiredFiles, notices,
                 transformed, entered, origin>>

\* sourceStartProcessing without the unshift of line 375
sourceStartProcessingNoLibrary(file, library) ==
  /\ currentLibraries' = currentLibraries
  /\ sourceDirectories' = <<Dirname(file)>> \o sourceDirectories
  /\ currentFiles' = <<file>> \o currentFiles

\* sourceStartProcessing (lines 374-378)
sourceStartProcessing(file, library) ==
  /\ currentLibraries' = <<library>> \o currentLibraries
  /\ sourceDirectories' = <<Dirname(file)>> \o sourceDirectories
  /\ currentFiles' = <<file>> \o currentFiles

\* sourceFinishProcessing taking the oldest file off the stack (pop for shift)
sourceFinishProcessingPop ==
  /\ currentFiles' = Pop(currentFiles)
  /\ sourceDirectories' = Pop(sourceDirectories)
  /\ currentLibraries' = Pop(currentLibraries)

\* sourceFinishProcessing (lines 383-387)
sourceFinishProcessing ==
  /\ currentFiles' = Shift(currentFiles)
  /\ sourceDirectories' = Shift(sourceDirectories)
  /\ currentLibraries' = Shift(currentLibraries)

\* requireFile reads a file it has no entry for and starts processSourceCode on
\* it (lines 741-752), which begins its first line (lines 649-656)
RequireNewFile ==
  /\ Calling
  /\ LET requiredInfo == getRequiredFileInfo(CallArg)
         requireFullName == RequireFullName(requiredInfo)
         sourceCode == fs[requiredInfo.fullpath]
     IN  /\ requiredInfo.found
         /\ ~InLoop(requiredInfo.fullpath, currentFiles)
         /\ ExistingRequire(requireFullName) = <<>>
         /\ sourceStartProcessing(requiredInfo.fullpath,
              IF requiredInfo.project \in LibraryIds
                THEN LoadedLibraries[requiredInfo.project] ELSE NullLibrary)
         /\ currentLineOfCode' = SetFirst(<<0>> \o currentLineOfCode, 1)
         /\ frames' = <<[fullpath |-> requiredInfo.fullpath,
                         requireFullName |-> requireFullName,
                         cleanSource |-> sourceCode,
                         lines |-> sourceCode,
                         idx |-> 1,
                         pos |-> 0,
                         call |-> Len(entered) + 1]>> \o frames
         /\ transformed' = [transformed EXCEPT ![requiredInfo.fullpath] = @ + 1]
         /\ entered' = Append(entered, [fullNameWithProject |-> requireFullName,
                                        fullpath |-> requiredInfo.fullpath,
                                        under |-> {frames[k].call : k \in 1..Len(frames)}])
  /\ UNCHANGED <<inputs, pc, error, requiredFiles, result, notices, origin>>

\* the handler finds the match only inside comments and returns it unchanged
\* (lines 611-616)
RequireInComment ==
  /\ pc = "run"
  /\ HasMatch
  /\ ~SurvivesStrip(frames[1].cleanSource, CurrentLine[MatchPos])
  /\ frames' = <<[frames[1] EXCEPT !.pos = MatchPos]>> \o Tail(frames)
  /\ UNCHANGED <<inputs, pc, error, stacks, currentLineOfCode, requiredFiles, result,
                 notices, transformed, entered, origin>>

\* a line is finished and kept (lines 668-674); the next one begins (lines 652-656)
NextLine ==
  /\ pc = "run"
  /\ frames # <<>>
  /\ ~HasMatch
  /\ ~(~preload /\ IsEmptyRequire(CurrentLine))
  /\ frames[1].idx < Len(frames[1].lines)
  /\ frames' = <<[frames[1] EXCEPT !.idx = @ + 1, !.pos = 0]>> \o Tail(frames)
  /\ currentLineOfCode' = SetFirst(currentLineOfCode, frames[1].idx + 1)
  /\ UNCHANGED <<inputs, pc, error, stacks, requiredFiles, result, notices,
                 transformed, entered, origin>>

\* FinishRequire with the entry put in front of requiredFiles (unshift for push)
FinishRequireUnshift(processedSource) ==
  LET requireEntry == [fullNameWithProject |-> frames[1].requireFullName,
                       sourceCode |-> processedSource]
      files == IF ~isRootFile(Shift(currentFiles))
                 THEN <<requireEntry>> \o requiredFiles
                 ELSE requiredFiles
  IN  /\ sourceFinishProcessing
      /\ requiredFiles' = files
      /\ origin' = IF files = requiredFiles THEN origin
                                            ELSE <<frames[1].call>> \o origin
      /\ Deliver(requireEntry, TRUE, Tail(frames), files)

\* FinishRequire without the test of line 762
FinishRequireAlways(processedSource) ==
  LET requireEntry == [fullNameWithProject |-> frames[1].requireFullName,
                       sourceCode |-> processedSource]
      files == Append(requiredFiles, requireEntry)
  IN  /\ sourceFinishProcessing
      /\ requiredFiles' = files
      /\ origin' = Append(origin, frames[1].call)
      /\ Deliver(requireEntry, TRUE, Tail(frames), files)

\* requireFile after processSourceCode returned processedSource (lines 753-767),
\* and the use its caller makes of the entry
FinishRequire(processedSource) ==
  LET requireEntry == [fullNameWithProject |-> frames[1].requireFullName,
                       sourceCode |-> processedSource]
      files == IF ~isRootFile(Shift(currentFiles))
                 THEN Append(requiredFiles, requireEntry)
                 ELSE requiredFiles
  IN  /\ sourceFinishProcessing
      /\ requiredFiles' = files
      /\ origin' = IF files = requiredFiles THEN origin
                                            ELSE Append(origin, frames[1].call)
      /\ Deliver(requireEntry, TRUE, Tail(frames), files)

\* the last line is finished and kept: processSourceCode returns the joined
\* lines (lines 673-678)
EndOfFile ==
  /\ pc = "run"
  /\ frames # <<>>
  /\ ~HasMatch
  /\ ~(~preload /\ IsEmptyRequire(CurrentLine))
  /\ frames[1].idx = Len(frames[1].lines)
  /\ currentLineOfCode' = Pop(currentLineOfCode)
  /\ FinishRequire(frames[1].lines)
  /\ UNCHANGED <<inputs, notices, transformed, entered>>

\* without preload a finished line is nothing but an inline lookup:
\* processSourceCode returns '' (lines 668-671)
EmptyRequire ==
  /\ pc = "run"
  /\ frames # <<>>
  /\ ~HasMatch
  /\ ~preload /\ IsEmptyRequire(CurrentLine)
  /\ FinishRequire(<< <<>> >>)
  /\ UNCHANGED <<inputs, currentLineOfCode, notices, transformed, entered>>

Next ==
  \/ StartBuild
  \/ RequireUnknownLibrary
  \/ RequireProjectFileMissing
  \/ RequireNotFound
  \/ RequireLoop
  \/ RequireExisting
  \/ RequireNewFile
  \/ RequireInComment
  \/ NextLine
  \/ EndOfFile
  \/ EmptyRequire

Spec == Init /\ [][Next]_vars

(***************************************************************************)
(* The constructor and processDirectives on their own                      *)
(***************************************************************************)
\* the values a variable is bound to
True == Bool(TRUE)
Values ==
  { Undefined, True, Bool(FALSE), Num(0), Num(1), Num(2),
    Str(<<>>), Str(<<"1">>), Str(<<"d", "e", "b", "u", "g">>) }

\* the variable sets of the build target and of the caller
TargetSets ==
  { [name \in VariableNames |->
       IF name = "RELEASE" THEN r ELSE IF name = "MODE" THEN m ELSE Undefined] :
    r \in {Undefined, True, Num(1)}, m \in {Undefined, Str(<<"d", "e", "v">>)} }
CallerSets ==
  { [name \in VariableNames |->
       IF name = "RELEASE" THEN r ELSE IF name = "LEVEL" THEN l ELSE Undefined] :
    r \in Values, l \in {Undefined, Num(2)} }

\* what follows the name on the line of ---@if
CompareValues ==
  { <<>>, <<" ", "t", "r", "u", "e">>, <<" ", "f", "a", "l", "s", "e">>,
    <<" ", "0">>, <<" ", "1">>, <<" ", "\"", "1", "\"">>,
    <<" ", "\"", "d", "e", "b", "u", "g", "\"">>, <<" ", "d", "e", "b", "u", "g">> }

\* the code between the line of ---@if and the line of ---@end
InnerCodes ==
  { <<" ", "first">>,
    <<" ", "first", "\n", ElseMarker, "\n", " ", "second", " ">> }

Directives ==
  [name : {"RELEASE"}, compareValue : CompareValues, innerCode : InnerCodes]

\* the fields of a new DULuaCompiler before the body of the constructor ran
InitDirectives ==
  /\ targetVariables \in TargetSets
  /\ variables \in CallerSets
  /\ buildVariables = NoVariables
  /\ directive \in Directives
  /\ processed = <<>>
  /\ dpc = "new"
  /\ NoSession
  /\ fs = [f \in Files |-> Unused]
  /\ preload = TRUE
  /\ rootRef = RefMain
  /\ loadedLuaPath \in LuaPaths
  /\ pc = "init"
  /\ error = ""
  /\ sourceDirectories = <<SourceDirectory>>
  /\ currentFiles = <<>>
  /\ currentLibraries = <<>>
  /\ currentLineOfCode = <<>>
  /\ requiredFiles = <<>>
  /\ frames = <<>>
  /\ result = NoResult
  /\ notices = <<>>
  /\ transformed = [f \in Files |-> 0]
  /\ entered = <<>>
  /\ origin = <<>>

build == <<fs, preload, rootRef, loadedLuaPath, pc, error, sourceDirectories,
           currentFiles, currentLibraries, currentLineOfCode, requiredFiles,
           frames, result, notices, transformed, entered, origin>>

\* the constructor loads the build variables (line 304)
Construct ==
  /\ dpc = "new"
  /\ buildVariables' = Assign(targetVariables, variables)
  /\ dpc' = "built"
  /\ UNCHANGED <<targetVariables, variables, directive, processed, build, session>>

\* processDirectives on a source that is one directive block (lines 524-569)
processDirectives ==
  /\ dpc = "built"
  /\ directive # NoDirective
  /\ processed' = directiveAction(buildVariables, directive.name,
                                  directive.compareValue, directive.innerCode)
  /\ dpc' = "processed"
  /\ UNCHANGED <<targetVariables, variables, buildVariables, directive, build,
                 session>>

NextDirectives == Construct \/ processDirectives

SpecDirectives == InitDirectives /\ [][NextDirectives]_vars

(***************************************************************************)
(* Two compilations of one project                                         *)
(*                                                                         *)
(* compile() and compileRequire() make an instance of their own (lines 809 *)
(* and 818), and all the state of a compilation is in the fields of its    *)
(* instance.  The variables hold the fields of the compilation that is     *)
(* running, `other` those of the compilation that is suspended at an       *)
(* await.  The first compilation runs alone once (phase "solo"), its final *)
(* fields are kept in `reference`, and then it runs again from the start   *)
(* together with a second compilation (phase "pair").                      *)
(***************************************************************************)
\* the fields of the running compilation
Current ==
  Instance(preload, rootRef, pc, error, sourceDirectories, currentFiles,
           currentLibraries, currentLineOfCode, requiredFiles, frames, result,
           notices, transformed, entered, origin)

\* the running compilation becomes the one with the fields inst
Resume(inst) ==
  /\ preload' = inst.preload
  /\ rootRef' = inst.rootRef
  /\ pc' = inst.pc
  /\ error' = inst.error
  /\ sourceDirectories' = inst.sourceDirectories
  /\ currentFiles' = inst.currentFiles
  /\ currentLibraries' = inst.currentLibraries
  /\ currentLineOfCode' = inst.currentLineOfCode
  /\ requiredFiles' = inst.requiredFiles
  /\ frames' = inst.frames
  /\ result' = inst.result
  /\ notices' = inst.notices
  /\ transformed' = inst.transformed
  /\ entered' = inst.entered
  /\ origin' = inst.origin

Ended(inst) == inst.pc \in {"done", "failed"}

\* the source trees the two compilations read
TreeDiamond ==
  [f \in Files |->
     IF f = MainFile THEN << <<Require(RefA)>>, <<Require(RefLibOther)>> >>
     ELSE IF f = FileA
       THEN << <<Text, Require(RefLibUtil)>>, <<Text, Require(RefShared)>> >>
     ELSE IF f = FileB THEN << <<Require(RefA)>> >>
     ELSE IF f = VendorOther
       THEN << <<Text, Require(RefUtil)>>, <<Text, Require(RefExtShared)>> >>
     ELSE Unused]
TreeNotices ==
  [f \in Files |->
     IF f = MainFile THEN << <<Require(RefB)>>, <<Require(RefA)>> >>
     ELSE IF f = FileA
       THEN << <<Require(RefB), Require(RefUtil), Require(RefUtil)>> >>
     ELSE IF f = FileB
       THEN << <<Text, Require(RefDkjson)>>, <<Text, CommentedRequire(RefUtil)>> >>
     ELSE IF f = FileUtil THEN << <<Text, Require(RefNoLib)>> >>
     ELSE Unused]
TreeLoop ==
  [f \in Files |->
     IF f = MainFile THEN << <<Text, Require(RefUtil)>>, <<Require(RefA)>> >>
     ELSE IF f = FileA
       THEN << <<Require(RefB), Require(RefUtil), Require(RefUtil)>> >>
     ELSE IF f = FileB THEN << <<Require(RefA)>> >>
     ELSE Unused]
Trees == {TreeDiamond, TreeNotices, TreeLoop}

\* the root references of the first and of the second compilation
FirstRoots == {RefMain, RefNoBuild}
SecondRoots == {RefMain, RefA}

InitPair ==
  /\ fs \in Trees
  /\ preload \in BOOLEAN
  /\ rootRef \in FirstRoots
  /\ loadedLuaPath \in LuaPaths
  /\ pc = "init"
  /\ error = ""
  /\ sourceDirectories = <<SourceDirectory>>
  /\ currentFiles = <<>>
  /\ currentLibraries = <<>>
  /\ currentLineOfCode = <<>>
  /\ requiredFiles = <<>>
  /\ frames = <<>>
  /\ result = NoResult
  /\ notices = <<>>
  /\ transformed = [f \in Files |-> 0]
  /\ entered = <<>>
  /\ origin = <<>>
  /\ NoSettings
  /\ phase = "solo"
  /\ active = 1
  /\ other = NoInstance
  /\ reference = NoInstance

\* the first compilation has run alone: it is started again, and a second
\* call of compile() or compileRequire() makes its own instance
StartPair ==
  /\ phase = "solo"
  /\ Ended(Current)
  /\ reference' = Current
  /\ phase' = "pair"
  /\ active' = 1
  /\ \E p \in BOOLEAN, r \in SecondRoots :
       other' = NewInstance(p, r)
  /\ Resume(NewInstance(preload, rootRef))
  /\ UNCHANGED <<fs, loadedLuaPath, settings>>

\* Switch with requiredFiles a field that all instances share
SwitchStatic ==
  /\ phase = "pair"
  /\ ~Ended(other)
  /\ other' = Current
  /\ active' = 3 - active
  /\ Resume([other EXCEPT !.requiredFiles = requiredFiles])
  /\ UNCHANGED <<fs, loadedLuaPath, settings, phase, reference>>

\* the running compilation is suspended at an await and the other one goes on
Switch ==
  /\ phase = "pair"
  /\ ~Ended(other)
  /\ other' = Current
  /\ active' = 3 - active
  /\ Resume(other)
  /\ UNCHANGED <<fs, loadedLuaPath, settings, phase, reference>>

NextPair == Next \/ StartPair \/ Switch

SpecPair == InitPair /\ [][NextPair]_vars

(***************************************************************************)
(* The reference graph of the files on disk                                *)
(***************************************************************************)
\* the items of a text
ItemsOf(source) ==
  UNION {{source[l][k] : k \in 1..Len(source[l])} : l \in 1..Len(source)}

\* the require invocations that stand in the code of a source
CodeRequires(source) ==
  {item.file : item \in {x \in ItemsOf(source) : x.t = "require" /\ ~x.c}}

\* the file a reference written in file f resolves to, <<>> when it resolves to none
Target(f, ref) == RequiredFileInfo(ref, Dirname(f), ProjectLibrary).fullpath

\* the files that the code of file f references
References(f) == {Target(f, ref) : ref \in CodeRequires(fs[f])} \ {<<>>}

\* the file the root reference resolves to, <<>> when it resolves to none
RootFile == RequiredFileInfo(rootRef, SourceDirectory, ProjectLibrary).fullpath

RECURSIVE ReachableFrom(_, _)
\* the files reached from those of S by at most n references
ReachableFrom(S, n) ==
  LET T == S \cup UNION {References(f) : f \in S}
  IN  IF n = 0 \/ T = S THEN S ELSE ReachableFrom(T, n - 1)

\* the files of the build: the root file and all it references, directly or not
BuildFiles == IF RootFile = <<>> THEN {} ELSE ReachableFrom({RootFile}, Cardinality(Files))

\* f references itself, directly or transitively
OnCycle(f) == f \in ReachableFrom(References(f), Cardinality(Files))

\* the elements of requiredFiles made from file f
EntriesOf(f) == {i \in 1..Len(requiredFiles) : entered[origin[i]].fullpath = f}

(***************************************************************************)
(* Claims                                                                  *)
(***************************************************************************)
\* C1: for every absolute file path there is at most one element of
\* requiredFiles and the file is transformed at most once, however and from
\* wherever it is referenced.
C1_OneEntryPerPath ==
  \A f \in Files : transformed[f] <= 1 /\ Cardinality(EntriesOf(f)) <= 1

\* C2: a compilation whose reference graph has a cycle that can be reached from
\* the root never returns a result.
C2_CycleNeverCompiles ==
  (pc = "done" \/ result # NoResult) => ~(\E f \in BuildFiles : OnCycle(f))

\* what C2 says with preload emission on, where every line is processed
C2_CycleNeverCompilesWithPreload ==
  (preload /\ (pc = "done" \/ result # NoResult)) => ~(\E f \in BuildFiles : OnCycle(f))

\* file f is referenced from two different files of a build without cycles
ReferencedTwice(f) ==
  /\ \A g \in BuildFiles : ~OnCycle(g)
  /\ \E g, h \in BuildFiles : g # h /\ f \in References(g) /\ f \in References(h)

\* C3: a file referenced from two different files along non-cyclic paths never
\* raises the cycle error, and after the compilation it is in requiredFiles
\* exactly once.
C3_DiamondResolvedOnce ==
  \A f \in Files :
    (\/ error = "Files required in a loop"
     \/ pc = "done" /\ Cardinality(EntriesOf(f)) # 1)
      => ~ReferencedTwice(f)

\* call b of processSourceCode started while call a was in progress
Nested(a, b) == a \in entered[b].under

\* C4 as stated: the entry of a module precedes the entries of the modules it
\* references for the first time (pre-order).
C4_PreOrder ==
  \A i, j \in 1..Len(requiredFiles) : Nested(origin[i], origin[j]) => i < j

\* C4 as amended: the entry of a module follows the entries of the modules
\* that were first resolved while it was being transformed (post-order), two
\* modules of which neither was resolved inside the other keep the order in
\* which they were resolved, and the preload list has the order of requiredFiles.
C4_PostOrder ==
  /\ \A i, j \in 1..Len(requiredFiles) :
       /\ requiredFiles[i].fullNameWithProject = entered[origin[i]].fullNameWithProject
       /\ Nested(origin[i], origin[j]) => j < i
       /\ origin[i] < origin[j] /\ ~Nested(origin[i], origin[j]) => i < j
  /\ pc = "done" =>
       [k \in 1..Len(result.preloads) |-> result.preloads[k].path] =
       [k \in 1..Len(requiredFiles) |-> requiredFiles[k].fullNameWithProject]

C4_Witness ==
  /\ pc = "done"
  /\ \E i, j \in 1..Len(requiredFiles) : Nested(origin[i], origin[j])
  /\ \E i, j \in 1..Len(requiredFiles) :
       origin[i] < origin[j] /\ ~Nested(origin[i], origin[j])

\* the reference ref written in file f names a loaded library, or none, and
\* resolves to no file
Unresolved(f, ref) ==
  LET info == RequiredFileInfo(ref, Dirname(f), ProjectLibrary)
  IN  ~info.panic /\ ~info.found

\* out, the transformation of file f, still has every unresolved require of
\* the code of f at its place
KeepsUnresolved(f, out) ==
  \A l \in 1..Len(fs[f]) : \A k \in 1..Len(fs[f][l]) :
    (/\ fs[f][l][k].t = "require" /\ ~fs[f][l][k].c
     /\ Unresolved(f, fs[f][l][k].file))
      => l <= Len(out) /\ k <= Len(out[l]) /\ out[l][k] = fs[f][l][k]

\* C5: an unresolved reference in a non-root file is left unchanged in the
\* transformed output of that file.
C5_MissingReferenceKept ==
  \A i \in 1..Len(requiredFiles) :
    KeepsUnresolved(entered[origin[i]].fullpath, requiredFiles[i].sourceCode)

\* what C5 says with preload emission on, where no line ends the transformation
C5_MissingReferenceKeptWithPreload ==
  preload => C5_MissingReferenceKept

\* the code of the root file has a reference that resolves to no file
RootHasUnresolved ==
  /\ RootFile # <<>>
  /\ \E ref \in CodeRequires(fs[RootFile]) : Unresolved(RootFile, ref)

\* C6 as stated: a reference to a nonexistent file in the source of the root
\* file aborts the build.
C6_RootSourceReferenceAborts == RootHasUnresolved => pc # "done"

\* C6 as amended: only the root reference itself aborts with "Project file
\* missing", before any file is processed; an unresolved reference in the
\* source of the root file gets a notice like in any other file.
C6_OnlyRootReferenceAborts ==
  /\ error = "Project file missing" => entered = <<>> /\ currentFiles = <<>>
  /\ \A k \in 1..Len(notices) : notices[k].file # <<>>

C6_Witness ==
  /\ pc = "done"
  /\ \E k \in 1..Len(notices) : notices[k].file = RootFile
  /\ Require(RefMissing) \in ItemsOf(result.output)

\* the root reference resolves to no file
RootUnresolved ==
  LET info == RequiredFileInfo(rootRef, SourceDirectory, ProjectLibrary)
  IN  ~info.panic /\ ~info.found

\* C7: when the root reference resolves to no file the compilation aborts with
\* "Project file missing" and returns no result.
C7_MissingRootAborts ==
  RootUnresolved =>
    /\ pc # "done" /\ result = NoResult /\ entered = <<>>
    /\ pc = "failed" => error = "Project file missing"

C7_Witness == RootUnresolved /\ pc = "failed" /\ error = "Project file missing"

\* main.lua requires "util" and nothing else, util.lua next to it requires nothing
C8_Setup ==
  /\ rootRef = RefMain /\ preload
  /\ CodeRequires(fs[MainFile]) = {RefUtil}
  /\ CodeRequires(fs[FileUtil]) = {}

\* the statement of C8 and C9 for a key
OnePreloadKeyed(key) ==
  /\ Len(result.preloads) = 1
  /\ result.preloads[1].path = key
  /\ [t |-> "preload", file |-> <<>>, key |-> key, c |-> FALSE] \in ItemsOf(result.output)

\* C8 as stated: the only preload entry has the key <project>:util and the
\* root body contains require('<project>:util').
C8_KeyWithoutExtension ==
  C8_Setup /\ pc = "done" => OnePreloadKeyed(ProjectName \o ":util")

\* C8 as amended: the key is <project>:util.lua, the project id, a colon and
\* the path of the file relative to the source root, extension included.
C8_KeyWithExtension ==
  C8_Setup /\ pc = "done" => OnePreloadKeyed(ProjectName \o ":util.lua")

C8_Witness == C8_Setup /\ pc = "done"

\* without preload emission main.lua requires the existing module "util"
C9_Setup ==
  /\ rootRef = RefMain /\ ~preload
  /\ RefUtil \in CodeRequires(fs[MainFile])

InlineLookup(key) == [t |-> "inline", file |-> <<>>, key |-> key, c |-> FALSE]

NoLoneRequire(f) ==
  \A l \in 1..Len(fs[f]) :
    LET line == fs[f][l]
        resolves(item) == /\ item.t = "require" /\ ~item.c
                          /\ RequiredFileInfo(item.file, Dirname(f), ProjectLibrary).found
    IN  ~(line # <<>> /\ resolves(line[1]) /\ resolves(line[Len(line)]))

EveryLineEmitted(source, out) ==
  /\ Len(out) = Len(source)
  /\ \A l \in 1..Len(source) : Text \in {source[l][k] : k \in 1..Len(source[l])}
                                 => out[l] # <<>>

\* C10: without preload emission a line that is a lone inline lookup is
\* dropped alone: every other line of the file is still emitted.
C10_OnlyTheLineDropped ==
  /\ \A i \in 1..Len(requiredFiles) :
       EveryLineEmitted(fs[entered[origin[i]].fullpath], requiredFiles[i].sourceCode)
  /\ pc = "done" => EveryLineEmitted(fs[RootFile], result.output)

\* the key of a file outside the project: the hash of its path and its basename
ExternalKey(f) == SafePathHash(f) \o ":" \o Basename(f)

\* in out, the transformation of file f, every rewritten require of a file
\* outside the project carries the key of that file
ExternalRewrittenWithKey(f, out) ==
  \A l \in 1..Len(fs[f]) : \A k \in 1..Len(fs[f][l]) :
    LET item == fs[f][l][k]
        g == Target(f, item.file)
    IN  (/\ item.t = "require" /\ g # <<>> /\ ~ContainsPath(g)
         /\ l <= Len(out) /\ k <= Len(out[l]) /\ out[l][k].t # "require")
          => out[l][k].key = ExternalKey(g)

\* C11: a file outside the project's boundary gets the key
\* <hash of its absolute path>:<basename>, whatever file references it, with
\* whatever reference string and under whatever library id; it is
\* transformed once and every rewritten reference to it carries that key.
C11_ExternalKeyFromPath ==
  /\ \A k \in 1..Len(entered) :
       ~ContainsPath(entered[k].fullpath) =>
         entered[k].fullNameWithProject = ExternalKey(entered[k].fullpath)
  /\ \A f \in Files : ~ContainsPath(f) => transformed[f] <= 1
  /\ \A i \in 1..Len(requiredFiles) :
       ExternalRewrittenWithKey(entered[origin[i]].fullpath, requiredFiles[i].sourceCode)

\* the transformation of file f refers to the external file g by its key
RefersByKey(f, g) ==
  \E i \in EntriesOf(f) : \E item \in ItemsOf(requiredFiles[i].sourceCode) :
    item.t \in {"preload", "inline"} /\ item.key = ExternalKey(g)

C11_Witness ==
  /\ pc = "done"
  /\ RefersByKey(FileA, ExternalShared)
  /\ RefersByKey(VendorOther, ExternalShared)
  /\ \E i \in EntriesOf(ExternalShared) :
       requiredFiles[i].fullNameWithProject = ExternalKey(ExternalShared)

\* C12: a file inside the project's boundary has one key, whether it is
\* referenced as Library:File from a file of another library or as a bare File
\* from a file of its own library.
C12_SameFileSameKey ==
  \A i, j \in 1..Len(entered) :
    (entered[i].fullpath = entered[j].fullpath /\ ContainsPath(entered[i].fullpath))
      => entered[i].fullNameWithProject = entered[j].fullNameWithProject

\* the reference names a library, and no library with that id is loaded
NamesUnknownLibrary(ref) ==
  LET parts == SplitOn(ref, ":")
  IN  Len(parts) >= 2 /\ parts[1] # <<>> /\ Concat(parts[1]) \notin LibraryIds

\* C13: when requireFile is called for a reference that names a library that
\* is not loaded, for the root reference or inside a file, the compilation
\* ends with the fatal error "Library not found": no notice is given, null is
\* not returned to the caller and no result is produced.
C13_UnknownLibraryIsFatal ==
  [][(Calling /\ NamesUnknownLibrary(CallArg)) =>
       /\ pc' = "failed" /\ error' = "Library not found for require"
       /\ notices' = notices /\ frames' = frames /\ result' = NoResult]_vars

C13_Witness ==
  /\ pc = "failed" /\ error = "Library not found for require"
  /\ frames # <<>> /\ HasMatch /\ NamesUnknownLibrary(CurrentLine[MatchPos].file)

\* the same for the root reference
C13_WitnessRoot ==
  /\ pc = "failed" /\ error = "Library not found for require"
  /\ frames = <<>> /\ NamesUnknownLibrary(rootRef)

\* the reference string begins with a declared internal prefix
StartsWithInternal(ref) == ref # <<>> /\ ref[1] \in InternalPaths

\* C14: when requireFile is called inside a file for a reference that
\* resolves to no file, it gives one notice, CLI.status when the reference
\* string starts with an internal prefix and CLI.warn otherwise, returns null
\* (the statement stays as it is, nothing is appended) and the build goes on.
C14_NoticeSeverity ==
  [][(/\ Calling /\ frames # <<>> /\ currentFiles # <<>>
      /\ Unresolved(getCurrentFile, CallArg)) =>
       /\ notices' = Append(notices,
            [level |-> IF StartsWithInternal(CallArg) THEN "status" ELSE "warn",
             filename |-> Concat(CallArg), file |-> getCurrentFile])
       /\ pc' = "run" /\ error' = error
       /\ Len(frames') = Len(frames)
       /\ frames'[1].lines = frames[1].lines /\ frames'[1].pos = MatchPos
       /\ requiredFiles' = requiredFiles /\ currentFiles' = currentFiles]_vars

C14_Witness ==
  /\ pc = "done"
  /\ \E k \in 1..Len(notices) :
       notices[k].level = "status" /\ notices[k].filename = Concat(RefDkjson)
  /\ \E k \in 1..Len(notices) :
       notices[k].level = "warn" /\ notices[k].filename = Concat(RefMissing)

\* JavaScript's truthiness of a value
Truthy(v) ==
  \/ v.k = "boolean" /\ v.b
  \/ v.k = "number" /\ v.n # 0
  \/ v.k = "string" /\ v.s # <<>>

TrueBody == Trim(Blocks(directive.innerCode).true)
FalseBody == Trim(Blocks(directive.innerCode).false)

\* C15: a directive ---@if VAR without a literal is replaced by its true
\* body exactly when VAR is truthy, and by its false body when VAR is falsy
\* or unbound.
C15_TruthyCheck ==
  (dpc = "processed" /\ directive.compareValue = <<>>) =>
    processed = IF Truthy(buildVariables[directive.name]) THEN TrueBody ELSE FalseBody

\* the literal of a directive as a typed value: what JSON.parse makes of it,
\* or the text itself as a string
TypedLiteral(compareValue) ==
  IF JSONParse(compareValue).ok THEN JSONParse(compareValue).value
  ELSE Str(Trim(compareValue))

\* C16: a directive ---@if VAR <literal> is replaced by its trimmed true body
\* exactly when VAR equals the typed literal, and by its trimmed false body
\* otherwise.
C16_TypedEquality ==
  (dpc = "processed" /\ directive.compareValue # <<>>) =>
    processed = IF buildVariables[directive.name] = TypedLiteral(directive.compareValue)
                  THEN TrueBody ELSE FalseBody

\* the example of C16: ---@if RELEASE true with RELEASE = true keeps the first body
C16_ReleaseTrue ==
  (/\ dpc = "processed" /\ directive.compareValue = <<" ", "t", "r", "u", "e">>
   /\ buildVariables["RELEASE"] = True) =>
    processed = <<"first">>

\* C18: the build variables are the variables of the build target merged
\* with those of the caller: a name bound by the caller has the caller's
\* value, any other name the value of the build target.
C18_CallerOverrides ==
  dpc # "new" =>
    \A name \in VariableNames :
      buildVariables[name] = IF variables[name] # Undefined THEN variables[name]
                             ELSE targetVariables[name]

C18_Witness ==
  /\ dpc = "built"
  /\ targetVariables["RELEASE"] # Undefined /\ variables["RELEASE"] # Undefined
  /\ targetVariables["RELEASE"] # variables["RELEASE"]
  /\ targetVariables["MODE"] # Undefined /\ variables["MODE"] = Undefined
  /\ targetVariables["LEVEL"] = Undefined /\ variables["LEVEL"] # Undefined

\* C17: a require invocation inside a comment is left untouched in the
\* transformed output of its file, also when the same invocation text stands
\* in code on another line of the file.
C17_CommentedRequireUntouched ==
  \A i \in 1..Len(requiredFiles) :
    LET f == entered[origin[i]].fullpath
        out == requiredFiles[i].sourceCode
    IN  \A l \in 1..Len(fs[f]) : \A k \in 1..Len(fs[f][l]) :
          (/\ fs[f][l][k].t = "require" /\ fs[f][l][k].c
           /\ l <= Len(out) /\ k <= Len(out[l]))
            => out[l][k] = fs[f][l][k]

\* what C17 says for the files whose code does not hold the same invocation
C17_OnlyCommentedUntouched ==
  \A i \in 1..Len(requiredFiles) :
    LET f == entered[origin[i]].fullpath
        out == requiredFiles[i].sourceCode
    IN  \A l \in 1..Len(fs[f]) : \A k \in 1..Len(fs[f][l]) :
          (/\ fs[f][l][k].t = "require" /\ fs[f][l][k].c
           /\ fs[f][l][k].file \notin CodeRequires(fs[f])
           /\ l <= Len(out) /\ k <= Len(out[l]))
            => out[l][k] = fs[f][l][k]

Wrapped(entry, closing) ==
  [path |-> entry.fullNameWithProject,
   output |-> <<"package.preload['" \o entry.fullNameWithProject
                  \o "'] = (function (...) ", entry.sourceCode, closing>>]

\* startBuild returns: output is what processSourceCode returned for the root
\* file, and the preloads are the entries of requiredFiles in their order,
\* each wrapped with closing after its body
ResultWrapped(closing) ==
  (pc = "run" /\ pc' = "done") =>
    /\ Len(frames) = 1
    /\ result'.output = IF ~preload /\ IsEmptyRequire(CurrentLine) THEN << <<>> >>
                                                                   ELSE frames[1].lines
    /\ Len(result'.preloads) = Len(requiredFiles)
    /\ \A k \in 1..Len(requiredFiles) :
         /\ result'.preloads[k].path = Wrapped(requiredFiles[k], closing).path
         /\ result'.preloads[k].output = Wrapped(requiredFiles[k], closing).output

\* C20 as stated: the wrapper is
\* package.preload['<key>'] = (function (...) <body> end);
C20_WrappedBody == [][ResultWrapped(" end);")]_vars

\* C20 as amended: the result's output is the transformed root body, there is
\* one preload for each element of requiredFiles, in its order, with the key
\* as path, and the wrapper is
\* package.preload['<key>'] = (function (...) <body>; end);
C20_WrappedBodySemicolon == [][ResultWrapped("; end);")]_vars

C20_Witness ==
  /\ pc = "done" /\ Len(result.preloads) >= 2
  /\ result.preloads[1].path # result.preloads[2].path
  /\ Text \in ItemsOf(result.output)

\* the fields of the first and of the second of two compilations
First == IF active = 1 THEN Current ELSE other
Second == IF active = 2 THEN Current ELSE other

\* C21: two compilations whose steps interleave share no state: when the
\* first one has ended, its stacks, its requiredFiles, its result and the
\* calls it made are those it ended with when it ran alone, and so are those
\* of the second one when it compiles the same reference with the same options.
C21_Isolated ==
  phase = "pair" =>
    /\ Ended(First) => First = reference
    /\ (/\ Ended(Second) /\ Second.preload = reference.preload
        /\ Second.rootRef = reference.rootRef) => Second = reference

C21_Witness ==
  /\ phase = "pair" /\ active = 1
  /\ Ended(First) /\ First.pc = "done" /\ Len(First.requiredFiles) >= 2
  /\ Second.pc = "run" /\ Second.frames # <<>> /\ Len(Second.requiredFiles) >= 1
  /\ Second.rootRef # First.rootRef

\* the calls of requireFile that are processing a file, innermost first
Activations == [k \in 1..Len(frames) |-> frames[k].call]

\* the activation at depth k was started under exactly the activations that
\* are below it now
StrictlyNested ==
  \A k \in 1..Len(frames) :
    entered[frames[k].call].under = {frames[j].call : j \in (k + 1)..Len(frames)}

\* the context stack names the files of the activations, innermost first
ContextIsActivation ==
  /\ Len(currentFiles) = Len(frames)
  /\ \A k \in 1..Len(frames) : currentFiles[k] = frames[k].fullpath

\* the reference being resolved stands, at the position of the match, in the
\* file on top of the context stack, and bare names are looked up in the
\* directory of that file
ContextContainsReference ==
  (Calling /\ frames # <<>>) =>
    /\ fs[currentFiles[1]][frames[1].idx][MatchPos].t = "require"
    /\ fs[currentFiles[1]][frames[1].idx][MatchPos].file = CallArg
    /\ sourceDirectories[1] = Dirname(currentFiles[1])

\* C22: within one compilation the resolutions in progress are strictly
\* nested: an activation of requireFile ends before any activation that is
\* not inside it begins, also on a line with several require invocations, so
\* the file on top of the context stack is the file that contains the
\* reference being resolved.
C22_StrictNesting ==
  /\ StrictlyNested
  /\ ContextIsActivation
  /\ ContextContainsReference

\* the third invocation of one line is being resolved, two levels deep
C22_Witness ==
  /\ Calling /\ Len(frames) >= 2
  /\ frames[1].fullpath = FileA
  /\ Cardinality({i \in 1..Len(CurrentLine) : CurrentLine[i].t = "require"}) = 1
  /\ Cardinality({i \in 1..Len(fs[FileA][1]) : fs[FileA][1][i].t = "require"}) = 3

\* C23: no path stands twice on the stack of the files in progress.
C23_NoPathTwice ==
  \A i, j \in 1..Len(currentFiles) : currentFiles[i] = currentFiles[j] => i = j

\* a file in progress was required again from the file it required, and the
\* stack was left with one element per file
C23_Witness ==
  /\ pc = "failed" /\ error = "Files required in a loop"
  /\ Len(currentFiles) >= 3
  /\ currentFiles[1] # currentFiles[2]
  /\ CurrentLine[MatchPos].file = RefA /\ currentFiles[2] = FileA

\* startBuild has run its first statement (line 773); compile and
\* compileRequire call it on the instance in the expression that makes it
Started == pc # "init"

\* C24: from the start of the build on, the three stacks have one element per
\* activation of requireFile that is processing a file, over the base entry of
\* sourceDirectories and of currentLibraries: they are pushed and popped
\* together, an activation that ended has taken its elements off, and after a
\* successful compilation currentFiles is empty.
C24_StacksInStep ==
  Started =>
    /\ Len(currentFiles) = Len(frames)
    /\ Len(sourceDirectories) = Len(currentFiles) + 1
    /\ Len(currentLibraries) = Len(currentFiles) + 1
    /\ \A k \in 1..Len(currentFiles) :
         /\ currentFiles[k] = frames[k].fullpath
         /\ sourceDirectories[k] = Dirname(currentFiles[k])
    /\ sourceDirectories[Len(sourceDirectories)] = SourceDirectory
    /\ currentLibraries[Len(currentLibraries)] = ProjectLibrary
    /\ pc = "done" => currentFiles = <<>>

\* a successful compilation that went three files deep and has four entries
C24_Witness ==
  /\ pc = "done" /\ currentFiles = <<>>
  /\ Len(requiredFiles) >= 4
  /\ \E c \in 1..Len(entered) : Cardinality(entered[c].under) >= 2

\* a file requires a reference that names no library
BareCall == Calling /\ frames # <<>> /\ parseFileString(CallArg).project = ""

RegularFile(path) == ExistsSync(path) /\ IsFile(path)

\* <directory of the referencing file>/<name>.lua
OwnCandidate ==
  CandidatePath(Dirname(currentFiles[1]), parseFileString(CallArg).filename)

\* <source root of the current library>/<name>.lua
RootCandidate ==
  CandidatePath(getCurrentLibrary.sourcePath, parseFileString(CallArg).filename)

\* <entry of LUA_PATH>/<name>.lua, in declared order
SearchCandidates ==
  [i \in 1..Len(loadedLuaPath) |->
     CandidatePath(loadedLuaPath[i], parseFileString(CallArg).filename)]

\* the step reports the reference as not found and leaves the statement
ReportsNotFound ==
  /\ \E level \in {"warn", "status"} :
       notices' = Append(notices, [level |-> level, filename |-> Concat(CallArg),
                                   file |-> currentFiles[1]])
  /\ Len(frames') = Len(frames)
  /\ frames'[1].lines[frames[1].idx][MatchPos] = CurrentLine[MatchPos]

\* the step resolves the reference to the file path: it starts processing
\* it, or it stops for a loop through it, or it takes the entry made for it
ResolvesTo(path) ==
  /\ notices' = notices
  /\ \/ Len(frames') = Len(frames) + 1 /\ frames'[1].fullpath = path
     \/ pc' = "failed" /\ error' = "Files required in a loop"
          /\ InLoop(path, currentFiles)
     \/ /\ Len(frames') = Len(frames)
        /\ \E c \in 1..Len(entered) :
             /\ entered[c].fullpath = path
             /\ frames'[1].lines[frames[1].idx][MatchPos].key
                  = entered[c].fullNameWithProject

C25_OwnDirectoryThenNotFound ==
  [][BareCall =>
       /\ RegularFile(OwnCandidate) => ResolvesTo(OwnCandidate)
       /\ (/\ ~RegularFile(OwnCandidate)
           /\ \A i \in 1..Len(SearchCandidates) : ~RegularFile(SearchCandidates[i]))
            => ReportsNotFound]_vars

\* requireFile is called with a reference that names no library or a loaded one
KnownCall ==
  /\ Calling
  /\ parseFileString(CallArg).project \in LibraryIds \cup {""}

\* the prefix: the source root of the library the reference names, or the
\* current directory when it names none
Prefix ==
  IF parseFileString(CallArg).project # ""
    THEN LoadedLibraries[parseFileString(CallArg).project].sourcePath
    ELSE sourceDirectories[1]

\* the candidates in the order they are tried
Candidates ==
  <<CandidatePath(Prefix, parseFileString(CallArg).filename)>> \o SearchCandidates

RegularCandidates == {i \in 1..Len(Candidates) : RegularFile(Candidates[i])}

\* what requireFile does with the result null: startBuild's own reference
\* ends the build, a reference of a file is reported and left
NotFoundOutcome ==
  IF frames = <<>>
    THEN pc' = "failed" /\ error' = "Project file missing" /\ notices' = notices
    ELSE ReportsNotFound

\* C26: the candidates are <prefix>/<name>.lua and then <entry>/<name>.lua
\* for the entries of LUA_PATH in declared order; the reference resolves to
\* the first candidate that is a regular file, and it is not found only when
\* no candidate is a regular file.
C26_FirstRegularCandidate ==
  [][KnownCall =>
       IF RegularCandidates = {}
         THEN NotFoundOutcome
         ELSE ResolvesTo(Candidates[CHOOSE i \in RegularCandidates :
                                      \A j \in RegularCandidates : i <= j])]_vars

\* a.lua required "shared": shared.lua beside it is a directory, both
\* entries of LUA_PATH hold a file shared.lua, and the first entry's was taken
C26_Witness ==
  /\ Len(frames) >= 2
  /\ frames[1].fullpath = ExternalShared /\ frames[2].fullpath = FileA
  /\ \E i \in 1..Len(frames[2].lines[frames[2].idx]) :
       frames[2].lines[frames[2].idx][i] = Require(RefShared)
  /\ CandidatePath(Dirname(FileA), RefShared) \in Directories
  /\ RegularFile(CandidatePath(loadedLuaPath[1], RefShared))
  /\ RegularFile(CandidatePath(loadedLuaPath[2], RefShared))
  /\ CandidatePath(loadedLuaPath[1], RefShared) = ExternalShared

\* C27: after a successful compilation no two entries of requiredFiles have
\* the same key.
C27_KeysDistinct ==
  pc = "done" =>
    \A i, j \in 1..Len(requiredFiles) :
      requiredFiles[i].fullNameWithProject = requiredFiles[j].fullNameWithProject
        => i = j

\* the keys of the rewritten references, require('K') or _REQ['K'], of a body
RewrittenKeys(source) ==
  {item.key : item \in {x \in ItemsOf(source) : x.t \in {"preload", "inline"}}}

\* C28: when the body of an entry holds a rewritten reference to key K, an
\* entry with key K stands before it in requiredFiles, and in the preload
\* list of the result.
C28_ReferencedFirst ==
  /\ \A i \in 1..Len(requiredFiles) :
       \A K \in RewrittenKeys(requiredFiles[i].sourceCode) :
         \E j \in 1..(i - 1) : requiredFiles[j].fullNameWithProject = K
  /\ pc = "done" =>
       \A i \in 1..Len(result.preloads) :
         \A K \in RewrittenKeys(result.preloads[i].source) :
           \E j \in 1..(i - 1) : result.preloads[j].path = K

\* a result whose third preload refers to two that stand before it
C28_Witness ==
  /\ pc = "done"
  /\ \E i \in 3..Len(result.preloads) :
       Cardinality(RewrittenKeys(result.preloads[i].source)) >= 2

\* C29: in the result of a successful compilation every key of a rewritten
\* reference, in the output of the root or in the body of a preload, is the
\* path of a preload of the result.
C29_NoDanglingKey ==
  pc = "done" =>
    \A K \in RewrittenKeys(result.output) \cup
              UNION {RewrittenKeys(result.preloads[i].source) :
                       i \in 1..Len(result.preloads)} :
      \E j \in 1..Len(result.preloads) : result.preloads[j].path = K

\* a result whose root output refers to two modules, one of them by the
\* entry that an earlier reference made
C29_Witness ==
  /\ pc = "done"
  /\ Cardinality(RewrittenKeys(result.output)) >= 2
  /\ \E i \in 1..Len(result.preloads) :
       /\ result.preloads[i].path \in RewrittenKeys(result.output)
       /\ \E j \in 1..Len(result.preloads) :
            j # i /\ result.preloads[i].path \in RewrittenKeys(result.preloads[j].source)

\* the keys of the accumulated list of a compilation, in order
KeysOf(inst) ==
  [i \in 1..Len(inst.requiredFiles) |-> inst.requiredFiles[i].fullNameWithProject]

\* the files a compilation resolved and read, in order
ResolvedOf(inst) == [c \in 1..Len(inst.entered) |-> inst.entered[c].fullpath]

\* C30: two successful compilations of the same reference over the same
\* files, one with the option preload and one without, resolve the same files
\* and end with the same list of keys in the same order.
C30_PreloadOnlyChangesText ==
  (/\ phase = "pair"
   /\ First.pc = "done" /\ Second.pc = "done"
   /\ First.rootRef = Second.rootRef
   /\ First.preload # Second.preload)
    => /\ KeysOf(First) = KeysOf(Second)
       /\ ResolvedOf(First) = ResolvedOf(Second)

\* getCurrentLineOfCode (lines 359-361); 0 stands for undefined
getCurrentLineOfCode ==
  IF currentLineOfCode = <<>> THEN 0 ELSE currentLineOfCode[1]

\* C31: currentLineOfCode has one element per processSourceCode call in
\* progress, the element of each call being the number of the line that
\* call is processing, so that a call that returned has taken off the element
\* it added and getCurrentLineOfCode is the number of the line being
\* processed in the innermost file, also after a nested require returned.
C31_LineStackInStep ==
  /\ Len(currentLineOfCode) = Len(frames)
  /\ \A k \in 1..Len(frames) : currentLineOfCode[k] = frames[k].idx
  /\ frames # <<>> => getCurrentLineOfCode = frames[1].idx

====
